---------------------------- MODULE Spec2Model ----------------------------
(***************************************************************************)
(* Model of the repository-to-text packer: the path tree built from a     *)
(* flat GitHub listing (buildTree), the tri-state selection status         *)
(* (getSelectionStatus), the selection toggles (handleToggle), the ASCII   *)
(* directory index (buildAsciiIndex), the output order (sortTreeItems),    *)
(* the output text (formatRepoOutput) and the two asynchronous handlers    *)
(* of the application (handleFetch, generateOutput).                       *)
(*                                                                         *)
(* A JavaScript string is a sequence of one-character strings, so that     *)
(* split, join, startsWith and the comparisons are computed, not assumed.  *)
(* The box-drawing characters of the index are written with ASCII          *)
(* stand-ins: "^" for U+2514, "+" for U+251C, "-" for U+2500 and "|" for   *)
(* U+2502.                                                                 *)
(***************************************************************************)
EXTENDS FiniteSets, Integers, Sequences, TLC

VARIABLES
    treeData,     \* App state treeData: a TreeNode, or NullTree
    selection,    \* App state selection: path -> BOOLEAN (own keys only)
    isLoading,    \* App state isLoading
    error,        \* App state error: Null or a message
    items,        \* the listing handleFetch received from fetchRepoTree
    calls,        \* the handleToggle calls made since treeData was last set
    files,        \* the argument of a sortTreeItems call
    sorted,       \* the result of that call
    sortDone,     \* whether sortTreeItems has returned
    output,       \* App state output: the generated text
    fetchedContents,    \* App state fetchedContents: a list of FileContent
    isGenerating,       \* App state isGenerating
    downloadFormat,     \* App state downloadFormat: "txt", "md" or "pdf"
    activeRepoDetails,  \* App state activeRepoDetails, or NullDetails
    gen           \* the generateOutput call suspended at its await, or IdleGen

vars ==
    <<treeData, selection, isLoading, error, items, calls, files, sorted,
      sortDone, output, fetchedContents, isGenerating, downloadFormat,
      activeRepoDetails, gen>>

Null == "null"

\* treeData before a tree is loaded
NullTree == [null |-> TRUE]

\* activeRepoDetails before a repository was parsed
NullDetails == [null |-> TRUE]

\* no generateOutput call is suspended
IdleGen == [pc |-> "idle"]

----------------------------------------------------------------------------
(* Bounds of the model.                                                    *)

\* longest listing a fetch returns
MaxItems == 3
\* longest list handed to sortTreeItems
MaxFiles == 3
\* direct handleToggle calls followed per loaded tree in SpecCall
MaxCalls == 1

----------------------------------------------------------------------------
(* Strings.                                                                *)

Slash == "/"

\* the text of a string as a sequence of characters
Str_d == <<"d">>
Str_d_f == <<"d", "/", "f">>
Str_d_e == <<"d", "/", "e">>
Str_d_e_g == <<"d", "/", "e", "/", "g">>
Str_root == <<"r", "o", "o", "t">>
Str_a == <<"a">>
Str_a_b == <<"a", "/", "b">>
Str_a_c_d == <<"a", "/", "c", "/", "d">>
Str_b_a == <<"b", "/", "a">>
Str_b_c == <<"b", "/", "c">>
Str_c == <<"c">>

\* String.prototype.startsWith
StartsWith(s, pre) ==
    /\ Len(pre) <= Len(s)
    /\ SubSeq(s, 1, Len(pre)) = pre

\* position of the first "/" of s, or 0
RECURSIVE FirstSlash(_, _)
FirstSlash(s, i) ==
    IF i > Len(s) THEN 0
    ELSE IF s[i] = Slash THEN i
    ELSE FirstSlash(s, i + 1)

\* String.prototype.split('/'): the pieces between the slashes; the empty
\* string splits into one empty piece
RECURSIVE Split(_)
Split(s) ==
    LET k == FirstSlash(s, 1) IN
    IF k = 0 THEN <<s>>
    ELSE <<SubSeq(s, 1, k - 1)>> \o Split(SubSeq(s, k + 1, Len(s)))

\* Array.prototype.join('/')
RECURSIVE Join(_)
Join(parts) ==
    IF Len(parts) = 0 THEN <<>>
    ELSE IF Len(parts) = 1 THEN parts[1]
    ELSE parts[1] \o <<Slash>> \o Join(Tail(parts))

----------------------------------------------------------------------------
(* Own-property order of a JavaScript object used as a dictionary: the     *)
(* keys that are canonical array indices come first, in ascending numeric  *)
(* order, then the other string keys in the order of their creation.  The  *)
(* children of a node are the sequence of its child nodes in that order.   *)

Digits == <<"0", "1", "2", "3", "4", "5", "6", "7", "8", "9">>

IsDigit(c) == \E i \in 1..Len(Digits) : Digits[i] = c

DigitVal(c) == (CHOOSE i \in 1..Len(Digits) : Digits[i] = c) - 1

\* a < b for two digit texts of one length, compared from position i on
RECURSIVE DigitsLess(_, _, _)
DigitsLess(a, b, i) ==
    IF i > Len(a) THEN FALSE
    ELSE IF a[i] # b[i] THEN DigitVal(a[i]) < DigitVal(b[i])
    ELSE DigitsLess(a, b, i + 1)

\* a < b as numbers, for two canonical decimal texts
NumLess(a, b) ==
    \/ Len(a) < Len(b)
    \/ Len(a) = Len(b) /\ DigitsLess(a, b, 1)

\* 2^32 - 1, the first number that is not an array index
IndexLimit == <<"4", "2", "9", "4", "9", "6", "7", "2", "9", "5">>

\* a key is an array index when it is the canonical decimal text of a
\* number below 2^32 - 1
IsArrayIndex(name) ==
    /\ Len(name) > 0
    /\ \A i \in 1..Len(name) : IsDigit(name[i])
    /\ (Len(name) > 1 => name[1] # "0")
    /\ NumLess(name, IndexLimit)

\* position of the child called part, or 0: current.children[part]
ChildIndex(children, part) ==
    IF \E i \in 1..Len(children) : children[i].name = part
    THEN CHOOSE i \in 1..Len(children) : children[i].name = part
    ELSE 0

\* current.children[part] = node, for a key that is not yet present
SetChild(children, node) ==
    IF IsArrayIndex(node.name)
    THEN LET before == {i \in 1..Len(children) :
                           /\ IsArrayIndex(children[i].name)
                           /\ NumLess(children[i].name, node.name)}
             k == Cardinality(before)
         IN  SubSeq(children, 1, k) \o <<node>>
                 \o SubSeq(children, k + 1, Len(children))
    ELSE Append(children, node)

----------------------------------------------------------------------------
(* buildTree.                                                              *)

RootNode ==
    [name |-> Str_root, path |-> <<>>, type |-> "tree", sha |-> "", url |-> "",
     children |-> <<>>]

\* NewNode that gives every node on the way the type of the entry
NewNode_entryType(parts, index, item) ==
    [name |-> parts[index],
     path |-> Join(SubSeq(parts, 1, index)),
     type |-> item.type,
     sha |-> IF index = Len(parts) THEN item.sha ELSE "",
     url |-> IF index = Len(parts) THEN item.url ELSE "",
     children |-> <<>>]

\* the node created for parts[index] when it does not exist yet
NewNode(parts, index, item) ==
    [name |-> parts[index],
     path |-> Join(SubSeq(parts, 1, index)),
     type |-> IF index = Len(parts) THEN item.type ELSE "tree",
     sha |-> IF index = Len(parts) THEN item.sha ELSE "",
     url |-> IF index = Len(parts) THEN item.url ELSE "",
     children |-> <<>>]

\* the body of parts.forEach from position index on, applied to current;
\* the result is current with the walked branch added below it
RECURSIVE WalkParts(_, _, _, _)
WalkParts(current, parts, index, item) ==
    IF index > Len(parts) THEN current
    ELSE
        LET part == parts[index]
            kids == IF ChildIndex(current.children, part) = 0
                    THEN SetChild(current.children, NewNode(parts, index, item))
                    ELSE current.children
            k == ChildIndex(kids, part)
        IN  [current EXCEPT !.children =
                [kids EXCEPT ![k] = WalkParts(kids[k], parts, index + 1, item)]]

\* items.forEach over the first n items
RECURSIVE BuildFrom(_, _)
BuildFrom(list, n) ==
    IF n = 0 THEN RootNode
    ELSE WalkParts(BuildFrom(list, n - 1), Split(list[n].path), 1, list[n])

buildTree(list) == BuildFrom(list, Len(list))

\* the nodes of the tree below node, node included, in depth-first order
RECURSIVE Nodes(_)
Nodes(node) ==
    {node} \cup UNION {Nodes(node.children[i]) : i \in 1..Len(node.children)}

----------------------------------------------------------------------------
(* getSelectionStatus (FileTree.tsx).                                      *)

\* selection[path] read as a condition: an absent key is undefined, falsy
Truthy(sel, path) == path \in DOMAIN sel /\ sel[path]

RECURSIVE getSelectionStatus(_, _)

\* getSelectionStatus with some() in the place of the first every()
getSelectionStatus_some(n, sel) ==
    IF n.type = "blob"
    THEN IF Truthy(sel, n.path) THEN "checked" ELSE "unchecked"
    ELSE IF Len(n.children) = 0 THEN "unchecked"
    ELSE
        LET statuses == [i \in 1..Len(n.children) |->
                            getSelectionStatus(n.children[i], sel)]
            allChecked == \E i \in 1..Len(statuses) : statuses[i] = "checked"
            allUnchecked == \A i \in 1..Len(statuses) : statuses[i] = "unchecked"
        IN  IF allChecked THEN "checked"
            ELSE IF allUnchecked THEN "unchecked"
            ELSE "indeterminate"

getSelectionStatus(n, sel) ==
    IF n.type = "blob"
    THEN IF Truthy(sel, n.path) THEN "checked" ELSE "unchecked"
    ELSE IF Len(n.children) = 0 THEN "unchecked"
    ELSE
        LET statuses == [i \in 1..Len(n.children) |->
                            getSelectionStatus(n.children[i], sel)]
            allChecked == \A i \in 1..Len(statuses) : statuses[i] = "checked"
            allUnchecked == \A i \in 1..Len(statuses) : statuses[i] = "unchecked"
        IN  IF allChecked THEN "checked"
            ELSE IF allUnchecked THEN "unchecked"
            ELSE "indeterminate"

\* FileTree's isDirectory, which decides the isFile argument of onToggle
isDirectory(node) == node.type = "tree" \/ Len(node.children) > 0

----------------------------------------------------------------------------
(* handleToggle.                                                           *)

\* newState[path] = value
SetKey(state, path, value) ==
    [p \in DOMAIN state \cup {path} |-> IF p = path THEN value ELSE state[p]]

\* isCurrentlySelected with some() in the place of every()
isCurrentlySelected_some(prev, path) ==
    \E p \in DOMAIN prev :
        (p = path \/ StartsWith(p, path \o <<Slash>>)) /\ prev[p]

\* the every() over the keys of prev that are path or lie below path + '/'
isCurrentlySelected(prev, path) ==
    \A p \in DOMAIN prev :
        (p = path \/ StartsWith(p, path \o <<Slash>>)) => prev[p]

RECURSIVE toggleChildren(_, _, _)
RECURSIVE ToggleEach(_, _, _, _)

\* Object.values(node.children).forEach(child => toggleChildren(child, ..))
\* from child i on
ToggleEach(children, i, targetValue, state) ==
    IF i > Len(children) THEN state
    ELSE ToggleEach(children, i + 1, targetValue,
                    toggleChildren(children[i], targetValue, state))

\* toggleChildren that writes the node and its immediate children only
toggleChildren_shallow(node, targetValue, state) ==
    LET own == IF node.type = "blob"
               THEN SetKey(state, node.path, targetValue)
               ELSE state
        kids == {node.children[i].path : i \in {j \in 1..Len(node.children) :
                                                  node.children[j].type = "blob"}}
    IN  [p \in DOMAIN own \cup kids |->
            IF p \in kids THEN targetValue ELSE own[p]]

toggleChildren(node, targetValue, state) ==
    LET own == IF node.type = "blob"
               THEN SetKey(state, node.path, targetValue)
               ELSE state
    IN  ToggleEach(node.children, 1, targetValue, own)

RECURSIVE findAndToggle(_, _, _, _)
RECURSIVE SomeChild(_, _, _, _, _)

\* Object.values(node.children).some(child => findAndToggle(child)) from
\* child i on: it stops at the first child that reports true
SomeChild(children, i, path, targetValue, state) ==
    IF i > Len(children) THEN [found |-> FALSE, state |-> state]
    ELSE
        LET r == findAndToggle(children[i], path, targetValue, state) IN
        IF r.found THEN r
        ELSE SomeChild(children, i + 1, path, targetValue, r.state)

findAndToggle(node, path, targetValue, state) ==
    IF node.path = path
    THEN [found |-> TRUE, state |-> toggleChildren(node, targetValue, state)]
    ELSE SomeChild(node.children, 1, path, targetValue, state)

\* the state updater of handleToggle: the new selection for prev
ToggleUpdate(tree, prev, path, isFile) ==
    IF isFile THEN SetKey(prev, path, ~Truthy(prev, path))
    ELSE IF tree = NullTree THEN prev
    ELSE findAndToggle(tree, path, ~isCurrentlySelected(prev, path), prev).state

----------------------------------------------------------------------------
(* buildAsciiIndex.  The result is the text; NewLine ends each line.       *)

NewLine == "\n"

ConnectorLast == <<"^", "-", "-", " ">>
ConnectorMid == <<"+", "-", "-", " ">>
IndentLast == <<" ", " ", " ", " ">>
IndentMid == <<"|", " ", " ", " ">>

RECURSIVE buildAsciiIndex(_, _, _)
RECURSIVE AsciiEach(_, _, _)

\* the texts of the children from child i on, concatenated
AsciiEach(children, i, prefix) ==
    IF i > Len(children) THEN <<>>
    ELSE buildAsciiIndex(children[i], prefix, i = Len(children))
             \o AsciiEach(children, i + 1, prefix)

buildAsciiIndex(node, prefix, isLast) ==
    IF node.name = Str_root
    THEN AsciiEach(node.children, 1, <<>>)
    ELSE
        LET connector == IF isLast THEN ConnectorLast ELSE ConnectorMid
            childPrefix == prefix \o (IF isLast THEN IndentLast ELSE IndentMid)
        IN  prefix \o connector \o node.name \o <<NewLine>>
                \o AsciiEach(node.children, 1, childPrefix)

\* number of lines of a text
LineCount(text) == Cardinality({i \in 1..Len(text) : text[i] = NewLine})

----------------------------------------------------------------------------
(* sortTreeItems.                                                          *)

LowerCase == <<"a", "b", "c", "d", "e", "f", "g", "h", "i", "j", "k", "l", "m",
               "n", "o", "p", "q", "r", "s", "t", "u", "v", "w", "x", "y", "z">>
UpperCase == <<"A", "B", "C", "D", "E", "F", "G", "H", "I", "J", "K", "L", "M",
               "N", "O", "P", "Q", "R", "S", "T", "U", "V", "W", "X", "Y", "Z">>

IsUpper(c) == \E i \in 1..Len(UpperCase) : UpperCase[i] = c

\* String.prototype.toLowerCase on one character
ToLower(c) ==
    IF IsUpper(c)
    THEN LowerCase[CHOOSE i \in 1..Len(UpperCase) : UpperCase[i] = c]
    ELSE c

\* the collation order of the characters at the first level (case ignored):
\* punctuation, then digits, then letters
Collation == <<"_", "-", ".">> \o Digits \o LowerCase

Primary(c) ==
    IF \E i \in 1..Len(Collation) : Collation[i] = ToLower(c)
    THEN CHOOSE i \in 1..Len(Collation) : Collation[i] = ToLower(c)
    ELSE 0

\* first position from i on where the two strings differ at the first
\* level (or one of them ends), 0 when there is none
RECURSIVE PrimaryDiff(_, _, _)
PrimaryDiff(a, b, i) ==
    IF i > Len(a) /\ i > Len(b) THEN 0
    ELSE IF i > Len(a) \/ i > Len(b) THEN i
    ELSE IF Primary(a[i]) # Primary(b[i]) THEN i
    ELSE PrimaryDiff(a, b, i + 1)

\* first position from i on where the two strings differ in case
RECURSIVE CaseDiff(_, _, _)
CaseDiff(a, b, i) ==
    IF i > Len(a) THEN 0
    ELSE IF a[i] # b[i] THEN i
    ELSE CaseDiff(a, b, i + 1)

\* String.prototype.localeCompare with the default collation: first-level
\* differences decide; on a first-level tie lower case sorts before upper
localeCompare(a, b) ==
    LET d == PrimaryDiff(a, b, 1) IN
    IF d # 0
    THEN IF d > Len(a) THEN -1
         ELSE IF d > Len(b) THEN 1
         ELSE IF Primary(a[d]) < Primary(b[d]) THEN -1 ELSE 1
    ELSE LET c == CaseDiff(a, b, 1) IN
         IF c = 0 THEN 0
         ELSE IF IsUpper(b[c]) THEN -1 ELSE 1

Min(x, y) == IF x <= y THEN x ELSE y

RECURSIVE CompareFrom(_, _, _)

\* the comparator loop without its second depth test
CompareFrom_oneSided(aParts, bParts, i) ==
    IF i > Min(Len(aParts), Len(bParts))
    THEN Len(aParts) - Len(bParts)
    ELSE IF aParts[i] # bParts[i]
    THEN IF i < Len(aParts) /\ ~(i < Len(bParts)) THEN -1
         ELSE localeCompare(aParts[i], bParts[i])
    ELSE CompareFrom(aParts, bParts, i + 1)

\* the comparator loop that puts the longer of two prefix-related paths
\* first
CompareFrom_longerFirst(aParts, bParts, i) ==
    IF i > Min(Len(aParts), Len(bParts))
    THEN Len(bParts) - Len(aParts)
    ELSE IF aParts[i] # bParts[i]
    THEN LET aIsDeep == i < Len(aParts)
             bIsDeep == i < Len(bParts)
         IN  IF aIsDeep /\ ~bIsDeep THEN -1
             ELSE IF ~aIsDeep /\ bIsDeep THEN 1
             ELSE localeCompare(aParts[i], bParts[i])
    ELSE CompareFrom(aParts, bParts, i + 1)

\* the loop of the comparator from segment i on
CompareFrom(aParts, bParts, i) ==
    IF i > Min(Len(aParts), Len(bParts))
    THEN Len(aParts) - Len(bParts)
    ELSE IF aParts[i] # bParts[i]
    THEN LET aIsDeep == i < Len(aParts)
             bIsDeep == i < Len(bParts)
         IN  IF aIsDeep /\ ~bIsDeep THEN -1
             ELSE IF ~aIsDeep /\ bIsDeep THEN 1
             ELSE localeCompare(aParts[i], bParts[i])
    ELSE CompareFrom(aParts, bParts, i + 1)

\* the comparator handed to sort: negative when a goes before b
Compare(a, b) == CompareFrom(Split(a.path), Split(b.path), 1)

\* Array.prototype.sort is stable: x goes after every element that does
\* not compare greater than it
RECURSIVE InsertSorted(_, _)
InsertSorted(list, x) ==
    IF Len(list) = 0 THEN <<x>>
    ELSE IF Compare(list[Len(list)], x) <= 0 THEN Append(list, x)
    ELSE Append(InsertSorted(SubSeq(list, 1, Len(list) - 1), x), list[Len(list)])

RECURSIVE SortFrom(_, _)
SortFrom(list, n) ==
    IF n = 0 THEN <<>> ELSE InsertSorted(SortFrom(list, n - 1), list[n])

sortTreeItems(list) == SortFrom(list, Len(list))

----------------------------------------------------------------------------
(* handleFetch: the default selection.                                     *)

COMMON_EXTENSIONS ==
    {<<"j", "s">>, <<"t", "s">>, <<"j", "s", "x">>, <<"t", "s", "x">>,
     <<"p", "y">>, <<"j", "a", "v", "a">>, <<"c", "p", "p">>, <<"h">>,
     <<"h", "t", "m", "l">>, <<"c", "s", "s">>, <<"m", "d">>,
     <<"j", "s", "o", "n">>, <<"t", "x", "t">>, <<"g", "o">>, <<"r", "s">>,
     <<"p", "h", "p">>, <<"r", "b">>, <<"s", "q", "l">>,
     <<"y", "a", "m", "l">>, <<"y", "m", "l">>, <<"t", "o", "m", "l">>}

\* position of the last "." of s at or before i, or 0
RECURSIVE LastDot(_, _)
LastDot(s, i) ==
    IF i = 0 THEN 0
    ELSE IF s[i] = "." THEN i
    ELSE LastDot(s, i - 1)

\* item.path.split('.').pop()?.toLowerCase() || '': the text after the last
\* "." of the path, the whole path when it holds none, in lower case
Extension(path) ==
    LET k == LastDot(path, Len(path))
        last == SubSeq(path, k + 1, Len(path))
    IN  [i \in 1..Len(last) |-> ToLower(last[i])]

\* the items.forEach of handleFetch over the first n items
RECURSIVE InitialSelectionFrom(_, _)
InitialSelectionFrom(list, n) ==
    IF n = 0 THEN <<>>
    ELSE
        LET state == InitialSelectionFrom(list, n - 1)
            item == list[n]
        IN  IF item.type = "blob"
            THEN SetKey(state, item.path,
                        Extension(item.path) \in COMMON_EXTENSIONS)
            ELSE state

initialSelection(list) == InitialSelectionFrom(list, Len(list))

----------------------------------------------------------------------------
(* Inputs.                                                                 *)

Item(path, type, sha, url) ==
    [path |-> path, type |-> type, sha |-> sha, url |-> url]

\* the entries a listing is drawn from: a directory, files at two depths,
\* a directory without files, a file called root, and a path listed twice
\* with two kinds
ItemUniverse ==
    {Item(Str_d, "tree", "s1", "u1"),
     Item(Str_d_f, "blob", "s2", "u2"),
     Item(Str_d_e, "tree", "s3", "u3"),
     Item(Str_d_e_g, "blob", "s4", "u4"),
     Item(Str_root, "blob", "s5", "u5"),
     Item(Str_d, "blob", "s6", "u6")}

ItemLists == UNION {[1..n -> ItemUniverse] : n \in 0..MaxItems}

\* the paths a direct handleToggle call is made with
CallPaths == {it.path : it \in ItemUniverse}

Str_src_a_ts == <<"s", "r", "c", "/", "a", ".", "t", "s">>
Str_src_sub_b_ts ==
    <<"s", "r", "c", "/", "s", "u", "b", "/", "b", ".", "t", "s">>
Str_README_md == <<"R", "E", "A", "D", "M", "E", ".", "m", "d">>

FileUniverse ==
    {[path |-> p, type |-> "text"] :
        p \in {Str_a, Str_a_b, Str_a_c_d, Str_b_a, Str_b_c, Str_c}}

\* a list with an extension, an upper-case name and a file two levels down
ExampleFiles ==
    <<[path |-> Str_src_a_ts, type |-> "text"],
      [path |-> Str_src_sub_b_ts, type |-> "text"],
      [path |-> Str_README_md, type |-> "text"]>>

FileLists == UNION {[1..n -> FileUniverse] : n \in 0..MaxFiles}

----------------------------------------------------------------------------
(* The application.                                                        *)

EmptySelection == <<>>

InitApp ==
    /\ treeData = NullTree
    /\ selection = EmptySelection
    /\ isLoading = FALSE
    /\ error = Null
    /\ items = <<>>
    /\ calls = <<>>
    /\ output = <<>>
    /\ fetchedContents = <<>>
    /\ isGenerating = FALSE
    /\ downloadFormat = "txt"
    /\ activeRepoDetails = NullDetails
    /\ gen = IdleGen

Init ==
    /\ InitApp
    /\ files = <<>>
    /\ sorted = <<>>
    /\ sortDone = FALSE

SortVars == <<files, sorted, sortDone>>
ExportVars == <<output, fetchedContents, isGenerating, downloadFormat, gen>>
AppVars ==
    <<treeData, selection, isLoading, error, items, calls, ExportVars,
      activeRepoDetails>>

\* the results of parseRepoUrl for the URLs typed
RepoUniverse == {[owner |-> <<"o">>, repo |-> <<"r">>]}

\* handleFetch up to its first await; the submit button is disabled while
\* isLoading.  The selection of the previous tree stays in place.
HandleFetchStart ==
    /\ ~isLoading
    /\ isLoading' = TRUE
    /\ error' = Null
    /\ treeData' = NullTree
    /\ output' = <<>>
    /\ fetchedContents' = <<>>
    /\ activeRepoDetails' \in RepoUniverse
    /\ items' = <<>>
    /\ calls' = <<>>
    /\ UNCHANGED <<selection, isGenerating, downloadFormat, gen, SortVars>>

\* handleFetch with a URL that parseRepoUrl rejects: the resets, catch and
\* finally in one synchronous run
HandleFetchInvalid ==
    /\ ~isLoading
    /\ error' = "Invalid GitHub repository URL."
    /\ treeData' = NullTree
    /\ output' = <<>>
    /\ fetchedContents' = <<>>
    /\ items' = <<>>
    /\ calls' = <<>>
    /\ UNCHANGED <<selection, isLoading, activeRepoDetails, isGenerating,
                   downloadFormat, gen, SortVars>>

\* handleFetch after fetchRepoTree resolved with a list of lists: the tree
\* and the default selection are set in one synchronous run, then finally
FetchResolve(lists) ==
    /\ isLoading
    /\ \E list \in lists :
        /\ items' = list
        /\ treeData' = buildTree(list)
        /\ selection' = initialSelection(list)
    /\ isLoading' = FALSE
    /\ calls' = <<>>
    /\ UNCHANGED <<error, activeRepoDetails, ExportVars, SortVars>>

HandleFetchResolve == FetchResolve(ItemLists)

\* handleFetch when one of its awaited calls rejected: catch, then finally
HandleFetchReject ==
    /\ isLoading
    /\ error' = "An error occurred while fetching the repository."
    /\ isLoading' = FALSE
    /\ UNCHANGED <<treeData, selection, items, calls, activeRepoDetails,
                   ExportVars, SortVars>>

\* one handleToggle call: the record of the call and the new selection
Call(path, isFile) == [path |-> path, isFile |-> isFile, prev |-> selection]

LastTwo(log) == IF Len(log) > 2 THEN SubSeq(log, Len(log) - 1, Len(log)) ELSE log

\* handleToggle as called by a FileTree row of the loaded tree: the rows
\* are the nodes below the root, and isFile is !isDirectory.  The call is
\* recorded in calls when recorded is TRUE.
RowToggle(recorded) ==
    /\ treeData # NullTree
    /\ \E node \in Nodes(treeData) \ {treeData} :
        /\ selection' =
               ToggleUpdate(treeData, selection, node.path, ~isDirectory(node))
        /\ calls' = IF recorded
                    THEN LastTwo(Append(calls,
                                        Call(node.path, ~isDirectory(node))))
                    ELSE calls
    /\ UNCHANGED <<treeData, isLoading, error, items, activeRepoDetails,
                   ExportVars, SortVars>>

HandleToggle == RowToggle(TRUE)

\* handleToggle called with any path and flag, a tree loaded or not
HandleToggleCall ==
    /\ Len(calls) < MaxCalls
    /\ \E path \in CallPaths, isFile \in BOOLEAN :
        /\ selection' = ToggleUpdate(treeData, selection, path, isFile)
        /\ calls' = Append(calls, Call(path, isFile))
    /\ UNCHANGED <<treeData, isLoading, error, items, activeRepoDetails,
                   ExportVars, SortVars>>

Next ==
    \/ HandleFetchStart
    \/ HandleFetchInvalid
    \/ HandleFetchResolve
    \/ HandleFetchReject
    \/ HandleToggle

Spec == Init /\ [][Next]_vars

NextCall ==
    \/ HandleFetchStart
    \/ HandleFetchInvalid
    \/ HandleFetchResolve
    \/ HandleFetchReject
    \/ HandleToggleCall

SpecCall == Init /\ [][NextCall]_vars

----------------------------------------------------------------------------
(* sortTreeItems applied to a list of file contents.                       *)

InitSort ==
    /\ InitApp
    /\ files \in FileLists \cup {ExampleFiles}
    /\ sorted = <<>>
    /\ sortDone = FALSE

SortTreeItems ==
    /\ ~sortDone
    /\ sorted' = sortTreeItems(files)
    /\ sortDone' = TRUE
    /\ UNCHANGED <<files, AppVars>>

NextSort == SortTreeItems

SpecSort == InitSort /\ [][NextSort]_vars

----------------------------------------------------------------------------
(* Vocabulary of the properties.                                           *)

Loaded == treeData # NullTree

LastCall == calls[Len(calls)]

\* the paths of the FILE nodes at or below node
FilePaths(node) == {n.path : n \in {m \in Nodes(node) : m.type = "blob"}}

\* the DIRECTORY nodes of the loaded tree with path p
DirsAt(p) == {n \in Nodes(treeData) : n.path = p /\ n.type = "tree"}

\* the keys of map m that are p or lie below p
KeysUnder(m, p) ==
    {k \in DOMAIN m : k = p \/ StartsWith(k, p \o <<Slash>>)}

\* the map holds exactly the FILE paths of the loaded tree as keys
KeysAreFiles(m) == DOMAIN m = FilePaths(treeData)

\* the last call was a subtree toggle on a DIRECTORY path of the tree
SubtreeToggled ==
    /\ Loaded
    /\ Len(calls) > 0
    /\ ~LastCall.isFile
    /\ DirsAt(LastCall.path) # {}

----------------------------------------------------------------------------
(* C1: a subtree toggle on a DIRECTORY path sets the FILEs below it to     *)
(* false exactly when the Status of that node was CHECKED, and to true     *)
(* when it was UNCHECKED or INDETERMINATE.  Stated for maps whose keys are *)
(* the FILE paths of the tree.                                             *)
C1_ToggleFollowsStatus ==
    (SubtreeToggled /\ KeysAreFiles(LastCall.prev)) =>
        \A n \in DirsAt(LastCall.path) :
            \A f \in FilePaths(n) :
                Truthy(selection, f)
                    <=> (getSelectionStatus(n, LastCall.prev) # "checked")

----------------------------------------------------------------------------
(* C2: Status(root) is CHECKED iff every FILE of the tree is selected,     *)
(* UNCHECKED iff every FILE is unselected, INDETERMINATE otherwise.        *)

RootStatusByFiles ==
    LET st == getSelectionStatus(treeData, selection)
        all == \A f \in FilePaths(treeData) : Truthy(selection, f)
        none == \A f \in FilePaths(treeData) : ~Truthy(selection, f)
    IN  /\ (st = "checked") <=> all
        /\ (st = "unchecked") <=> none
        /\ (st = "indeterminate") <=> (~all /\ ~none)

\* every DIRECTORY node has a child and no FILE node has one
NoEmptyDirectory ==
    \A n \in Nodes(treeData) :
        (n.type = "tree") <=> (Len(n.children) > 0)

----------------------------------------------------------------------------
(* C3: after a subtree toggle on a DIRECTORY path, every FILE below it at  *)
(* every depth holds one and the same value, every key that is not a FILE  *)
(* below it is unchanged, and no key other than those FILEs was added (so  *)
(* no DIRECTORY path became a key).                                        *)
C3_SubtreeFrame ==
    SubtreeToggled =>
        \A n \in DirsAt(LastCall.path) :
            /\ FilePaths(n) \subseteq DOMAIN selection
            /\ \E v \in BOOLEAN : \A f \in FilePaths(n) : selection[f] = v
            /\ \A k \in DOMAIN LastCall.prev \ FilePaths(n) :
                   k \in DOMAIN selection /\ selection[k] = LastCall.prev[k]
            /\ DOMAIN selection \ DOMAIN LastCall.prev \subseteq FilePaths(n)
            /\ \A m \in Nodes(treeData) :
                   (m.type = "tree" /\ m.path \in DOMAIN selection)
                       => m.path \in DOMAIN LastCall.prev

\* C3 witness: the directory d was toggled with files below it at depth two
\* and three and a file outside it, and the toggle changed the map
C3_Witness ==
    /\ SubtreeToggled
    /\ LastCall.path = Str_d
    /\ \E n \in DirsAt(Str_d) : {Str_d_f, Str_d_e_g} \subseteq FilePaths(n)
    /\ Str_root \in DOMAIN selection
    /\ selection # LastCall.prev

----------------------------------------------------------------------------
(* C4: two subtree toggles in a row on one directory path, the tree        *)
(* unchanged between them, return the selection map to the map before the  *)
(* first.                                                                  *)

TwoSubtreeToggles ==
    /\ Loaded
    /\ Len(calls) = 2
    /\ ~calls[1].isFile
    /\ ~calls[2].isFile
    /\ calls[1].path = calls[2].path
    /\ DirsAt(calls[1].path) # {}

\* the keys of m at or below p are the FILEs below the directory, and they
\* hold one value
UniformUnder(m, n) ==
    /\ KeysUnder(m, n.path) = FilePaths(n)
    /\ \E v \in BOOLEAN : \A f \in FilePaths(n) : m[f] = v

\* C4 as claimed: the round trip restores every starting map.  Stated for
\* maps whose keys are the FILE paths of the tree.
C4_RoundTripAnyMap ==
    (TwoSubtreeToggles /\ KeysAreFiles(calls[1].prev)) =>
        selection = calls[1].prev

\* C4 amended: the round trip restores the starting map when its keys at or
\* below the path are the FILEs below the directory and they all hold one
\* value; from a partially selected subtree it ends with every FILE below
\* the path unselected, the other keys as before
C4_RoundTrip ==
    TwoSubtreeToggles =>
        \A n \in DirsAt(calls[1].path) :
            KeysUnder(calls[1].prev, n.path) = FilePaths(n) =>
                IF UniformUnder(calls[1].prev, n)
                THEN selection = calls[1].prev
                ELSE /\ DOMAIN selection = DOMAIN calls[1].prev
                     /\ \A k \in DOMAIN selection :
                            selection[k] = IF k \in FilePaths(n) THEN FALSE
                                           ELSE calls[1].prev[k]

\* C4 witness: a fully selected subtree with two files was cleared by the
\* first toggle and selected again by the second
C4_Witness ==
    /\ TwoSubtreeToggles
    /\ \E n \in DirsAt(calls[1].path) :
        /\ UniformUnder(calls[1].prev, n)
        /\ Cardinality(FilePaths(n)) >= 2
        /\ \A f \in FilePaths(n) : calls[1].prev[f] /\ ~calls[2].prev[f]
    /\ selection = calls[1].prev

----------------------------------------------------------------------------
(* C5: the comparator of sortTreeItems is transitive on any three paths,   *)
(* and sorting a sorted list returns the same list.                        *)

Range(list) == {list[i] : i \in 1..Len(list)}

\* the segments of p are the first segments of q
SegPrefix(p, q) ==
    /\ Len(p) <= Len(q)
    /\ SubSeq(q, 1, Len(p)) = p

Transitive(set) ==
    \A a, b, c \in set :
        (Compare(a, b) < 0 /\ Compare(b, c) < 0) => Compare(a, c) < 0

\* no path of the list is a proper segment-wise prefix of another
PrefixFree(list) ==
    \A a, b \in Range(list) :
        a.path # b.path => ~SegPrefix(Split(a.path), Split(b.path))

\* C5 as claimed: for any paths, one a prefix of another or not
C5_TotalOrderAnyPaths ==
    sortDone =>
        /\ Transitive(Range(files))
        /\ sortTreeItems(sorted) = sorted

\* C5 amended: the comparator is transitive on any three paths none of
\* which is a proper segment-wise prefix of another, and sorting a sorted
\* list of such paths returns the same list
C5_TotalOrder ==
    (sortDone /\ PrefixFree(files)) =>
        /\ Transitive(Range(files))
        /\ sortTreeItems(sorted) = sorted

\* C5 witness: three paths, none a prefix of another, a top-level file
\* among them that the sort moved behind a deeper path
C5_Witness ==
    /\ sortDone
    /\ PrefixFree(files)
    /\ Cardinality(Range(files)) = 3
    /\ files[1].path = Str_c
    /\ sorted[3].path = Str_c
    /\ sorted # files

----------------------------------------------------------------------------
(* C6: the built tree holds each listed FILE path as a FILE node reached   *)
(* by its segments, each node's path is the join of the segments leading   *)
(* to it, and every proper prefix of a listed path is a DIRECTORY node.    *)

\* the node reached from node along parts[i..], as a one-element sequence,
\* or the empty sequence when a segment is missing
RECURSIVE Descend(_, _, _)
Descend(node, parts, i) ==
    IF i > Len(parts) THEN <<node>>
    ELSE LET k == ChildIndex(node.children, parts[i]) IN
         IF k = 0 THEN <<>>
         ELSE Descend(node.children[k], parts, i + 1)

\* the node reached by parts exists, carries the joined path and has kind
HasNode(parts, kind) ==
    LET r == Descend(treeData, parts, 1) IN
    /\ r # <<>>
    /\ r[1].path = Join(parts)
    /\ r[1].type = kind

ProperPrefixes(parts) == {SubSeq(parts, 1, j) : j \in 1..(Len(parts) - 1)}

\* every listed FILE is a FILE node and its proper prefixes are DIRECTORYs
FilesAndPrefixes ==
    \A i \in 1..Len(items) :
        items[i].type = "blob" =>
            /\ HasNode(Split(items[i].path), "blob")
            /\ \A pre \in ProperPrefixes(Split(items[i].path)) :
                   HasNode(pre, "tree")

\* the kind the first entry that reaches parts gives the node: the kind of
\* that entry when parts is its whole path, DIRECTORY when it passes through
FirstKind(parts) ==
    LET hits == {j \in 1..Len(items) : SegPrefix(parts, Split(items[j].path))}
        first == CHOOSE j \in hits : \A k \in hits : j <= k
    IN  IF Len(Split(items[first].path)) = Len(parts)
        THEN items[first].type
        ELSE "tree"

\* no FILE path of the list is also listed as a DIRECTORY or is a proper
\* prefix of a listed path
KindsAgree ==
    \A i, j \in 1..Len(items) :
        (items[i].type = "blob" /\ i # j) =>
            \/ ~SegPrefix(Split(items[i].path), Split(items[j].path))
            \/ (items[j].path = items[i].path /\ items[j].type = "blob")

----------------------------------------------------------------------------
(* C7: the node of a path carries the kind, sha and url of the last entry  *)
(* of the list with that path.                                             *)
C7_LastWriteWins ==
    Loaded =>
        \A i \in 1..Len(items) :
            LET same == {j \in 1..Len(items) : items[j].path = items[i].path}
                last == CHOOSE j \in same : \A k \in same : k <= j
                r == Descend(treeData, Split(items[i].path), 1)
            IN  /\ r # <<>>
                /\ r[1].type = items[last].type
                /\ r[1].sha = items[last].sha
                /\ r[1].url = items[last].url

----------------------------------------------------------------------------
(* C8: the index has one line for every node of the tree but the           *)
(* synthetic root.                                                         *)
C8_OneLinePerNode ==
    Loaded =>
        LineCount(buildAsciiIndex(treeData, <<>>, TRUE))
            = Cardinality(Nodes(treeData)) - 1

----------------------------------------------------------------------------
(* C9: a handleToggle call with a path that is not in the current tree, or *)
(* made while no tree is loaded, leaves the selection map as it was, in    *)
(* the file branch and in the subtree branch.                              *)
C9_StaleToggleNoOp ==
    (/\ Len(calls) > 0
     /\ (Loaded => \A n \in Nodes(treeData) : n.path # LastCall.path))
        => selection = LastCall.prev

----------------------------------------------------------------------------
(* C10: whenever a tree is loaded, every key of the selection map is the   *)
(* path of a FILE node of that tree.                                       *)
C10_KeysAreFileNodes == Loaded => DOMAIN selection \subseteq FilePaths(treeData)


----------------------------------------------------------------------------
(* handleFetch on listings with names of digits, names without a ".",      *)
(* and extensions in both cases.                                           *)

\* longest listing a fetch returns in SpecListing
MaxListing == 3

Str_b == <<"b">>
Str_1 == <<"1">>
Str_2 == <<"2">>
Str_10 == <<"1", "0">>
Str_d_1 == <<"d", "/", "1">>
Str_d_a_ts == <<"d", "/", "a", ".", "t", "s">>
Str_A_TS == <<"A", ".", "T", "S">>
Str_h == <<"h">>
Str_d_h == <<"d", "/", "h">>

ListingUniverse ==
    {Item(Str_b, "blob", "s1", "u1"),
     Item(Str_1, "blob", "s2", "u2"),
     Item(Str_2, "blob", "s3", "u3"),
     Item(Str_10, "blob", "s4", "u4"),
     Item(Str_d_1, "blob", "s5", "u5"),
     Item(Str_d_a_ts, "blob", "s6", "u6"),
     Item(Str_A_TS, "blob", "s7", "u7"),
     Item(Str_h, "blob", "s8", "u8"),
     Item(Str_d_h, "blob", "s9", "u9"),
     Item(Str_d, "tree", "s10", "u10")}

ListingLists == UNION {[1..n -> ListingUniverse] : n \in 0..MaxListing}

HandleFetchResolveListing == FetchResolve(ListingLists)

NextListing ==
    \/ HandleFetchStart
    \/ HandleFetchInvalid
    \/ HandleFetchResolveListing
    \/ HandleFetchReject

SpecListing == Init /\ [][NextListing]_vars

\* the extension as the claim words it: the text after the last "." of the
\* path in lower case, empty when the path holds no "."
ClaimedExtension(path) ==
    IF LastDot(path, Len(path)) = 0 THEN <<>> ELSE Extension(path)

BlobPaths(list) == {list[i].path : i \in {j \in 1..Len(list) : list[j].type = "blob"}}

----------------------------------------------------------------------------
(* C11: the default selection holds a key for each FILE entry and for no   *)
(* other path, and the FILE is selected iff its extension, empty for a     *)
(* path without ".", is in the allow-list; so a FILE whose path has no "." *)
(* is never selected by default.                                           *)
C11_DefaultSelection ==
    Loaded =>
        /\ DOMAIN selection = BlobPaths(items)
        /\ \A p \in BlobPaths(items) :
               selection[p] <=> (ClaimedExtension(p) \in COMMON_EXTENSIONS)


----------------------------------------------------------------------------
(* C12: for two distinct paths Order decides at the first differing        *)
(* segment: the path with further segments after it goes first; when both  *)
(* or neither have further segments the differing segments are compared    *)
(* by locale; when one path's segments are a prefix of the other's the     *)
(* shorter goes first.  The list src/a.ts, src/sub/b.ts, README.md comes   *)
(* out as src/sub/b.ts, src/a.ts, README.md, and the argument list is      *)
(* left as it was.                                                         *)

\* the first position at which the segment lists differ, 0 when one is a
\* prefix of the other
FirstDiffering(pa, pb) ==
    LET diff == {i \in 1..Min(Len(pa), Len(pb)) : pa[i] # pb[i]}
    IN  IF diff = {} THEN 0 ELSE CHOOSE i \in diff : \A j \in diff : i <= j

\* the rule of the claim: the path with segments pa goes before the one
\* with segments pb
ClaimedBefore(pa, pb) ==
    LET i == FirstDiffering(pa, pb) IN
    IF i = 0 THEN Len(pa) < Len(pb)
    ELSE LET aMore == Len(pa) > i
             bMore == Len(pb) > i
         IN  IF aMore # bMore THEN aMore
             ELSE localeCompare(pa[i], pb[i]) < 0

ExampleSorted == <<ExampleFiles[2], ExampleFiles[1], ExampleFiles[3]>>

PairwiseRule ==
    /\ \A a, b \in Range(files) :
           a.path # b.path =>
               /\ ClaimedBefore(Split(a.path), Split(b.path))
                      <=> (Compare(a, b) < 0)
               /\ ClaimedBefore(Split(b.path), Split(a.path))
                      <=> (Compare(a, b) > 0)
    /\ (sortDone /\ Len(files) = 2 /\ files[1].path # files[2].path) =>
           /\ Len(sorted) = 2
           /\ ClaimedBefore(Split(sorted[1].path), Split(sorted[2].path))
    /\ (sortDone /\ files = ExampleFiles) => sorted = ExampleSorted

C12_OrderRule == []PairwiseRule /\ [][files' = files]_vars

\* C12 witness: the list of the example has been sorted
C12_Witness == sortDone /\ files = ExampleFiles /\ sorted # files


----------------------------------------------------------------------------
(* C16: the children of every node are iterated, printed by the index and  *)
(* marked first or last sibling in the order in which their segment names  *)
(* first appeared in the listing, names made of digits included.           *)

\* the names of the segments that follow prefix in the first n entries, in
\* the order of their first appearance
RECURSIVE FirstAppearance(_, _, _)
FirstAppearance(list, n, prefix) ==
    IF n = 0 THEN <<>>
    ELSE
        LET seen == FirstAppearance(list, n - 1, prefix)
            parts == Split(list[n].path)
            k == Len(prefix)
        IN  IF /\ Len(parts) > k
               /\ SubSeq(parts, 1, k) = prefix
               /\ parts[k + 1] \notin Range(seen)
            THEN Append(seen, parts[k + 1])
            ELSE seen

ChildNames(node) == [i \in 1..Len(node.children) |-> node.children[i].name]

\* the lines of a text, each without its NewLine
RECURSIVE Lines(_)
Lines(text) ==
    IF Len(text) = 0 THEN <<>>
    ELSE IF \E i \in 1..Len(text) : text[i] = NewLine
    THEN LET k == CHOOSE i \in 1..Len(text) :
                      /\ text[i] = NewLine
                      /\ \A j \in 1..(i - 1) : text[j] # NewLine
         IN  <<SubSeq(text, 1, k - 1)>> \o Lines(SubSeq(text, k + 1, Len(text)))
    ELSE <<text>>

\* a line of the index for a child of the root
IsTopLine(line) == Len(line) > 4 /\ line[1] \in {"^", "+"}

TopLines == SelectSeq(Lines(buildAsciiIndex(treeData, <<>>, TRUE)), IsTopLine)

C16_InsertionOrder ==
    Loaded =>
        /\ \A n \in Nodes(treeData) :
               ChildNames(n) =
                   FirstAppearance(items, Len(items),
                                   IF n = treeData THEN <<>> ELSE Split(n.path))
        /\ LET first == FirstAppearance(items, Len(items), <<>>)
           IN  /\ Len(TopLines) = Len(first)
               /\ \A i \in 1..Len(TopLines) :
                      /\ SubSeq(TopLines[i], 5, Len(TopLines[i])) = first[i]
                      /\ (SubSeq(TopLines[i], 1, 4) = ConnectorLast)
                             <=> (i = Len(first))


----------------------------------------------------------------------------
(* formatRepoOutput.  The result is the text; the backquote U+0060 of the  *)
(* code fences is written with the ASCII stand-in "'".                     *)

MdRepository ==
    <<"#", " ", "R", "e", "p", "o", "s", "i", "t", "o", "r", "y", ":", " ">>

MdStructureOpen ==
    <<"#", "#", " ", "D", "i", "r", "e", "c", "t", "o", "r", "y", " ", "S",
      "t", "r", "u", "c", "t", "u", "r", "e", NewLine, NewLine, "'", "'",
      "'", "t", "e", "x", "t", NewLine>>

MdStructureClose ==
    <<NewLine, "'", "'", "'", NewLine, NewLine>>

MdFiles ==
    <<"#", "#", " ", "F", "i", "l", "e", "s", NewLine>>

MdFileHeading ==
    <<"#", "#", "#", " ", "F", "i", "l", "e", ":", " ">>

MdFence ==
    <<"'", "'", "'">>

MdImageOpen ==
    <<"!", "[">>

MdImageMid ==
    <<"]", "(">>

MdImageClose ==
    <<")">>

TxtRepository ==
    <<"R", "E", "P", "O", "S", "I", "T", "O", "R", "Y", ":", " ">>

TxtStructure ==
    <<"S", "T", "R", "U", "C", "T", "U", "R", "E", ":", NewLine, NewLine>>

TxtRule ==
    <<"-", "-", "-">>

TxtFile ==
    <<"F", "I", "L", "E", ":", " ">>

TxtImageOpen ==
    <<" ", "(", "I", "m", "a", "g", "e", " ", "C", "o", "n", "t", "e", "n",
      "t", ":", " ">>

TxtImageClose ==
    <<")">>

Undefined ==
    <<"u", "n", "d", "e", "f", "i", "n", "e", "d">>

\* ${repoDetails?.owner} and ${repoDetails?.repo} in a template literal
Owner(repoDetails) ==
    IF repoDetails = NullDetails THEN Undefined ELSE repoDetails.owner

RepoName(repoDetails) ==
    IF repoDetails = NullDetails THEN Undefined ELSE repoDetails.repo

\* file.path.split('.').pop() || '': the text after the last "." of the
\* path, the whole path when it holds none
PathExtension(path) == SubSeq(path, LastDot(path, Len(path)) + 1, Len(path))

\* the body of sorted.forEach in md format: what one file adds to output
MdRecord(file) ==
    IF file.type = "image" /\ Len(file.dataUrl) > 0
    THEN <<NewLine>> \o MdFileHeading \o file.path \o <<NewLine, NewLine>>
             \o MdImageOpen \o file.path \o MdImageMid \o file.dataUrl
             \o MdImageClose \o <<NewLine>>
    ELSE IF file.type = "text"
    THEN <<NewLine>> \o MdFileHeading \o file.path \o <<NewLine, NewLine>>
             \o MdFence \o PathExtension(file.path) \o <<NewLine>>
             \o file.text \o <<NewLine>> \o MdFence \o <<NewLine>>
    ELSE <<>>

\* the body of sorted.forEach in txt format
TxtRecord(file) ==
    IF file.type = "text"
    THEN <<NewLine>> \o TxtRule \o <<NewLine>> \o TxtFile \o file.path
             \o <<NewLine>> \o TxtRule \o <<NewLine, NewLine>> \o file.text
             \o <<NewLine>>
    ELSE <<NewLine>> \o TxtRule \o <<NewLine>> \o TxtFile \o file.path
             \o TxtImageOpen \o file.mimeType \o TxtImageClose
             \o <<NewLine>> \o TxtRule \o <<NewLine>>

\* sorted.forEach from file i on
RECURSIVE FormatEach(_, _, _)
FormatEach(list, i, format) ==
    IF i > Len(list) THEN <<>>
    ELSE (IF format = "md" THEN MdRecord(list[i]) ELSE TxtRecord(list[i]))
             \o FormatEach(list, i + 1, format)

formatRepoOutput(contents, tree, format, repoDetails) ==
    LET sortedFiles == sortTreeItems(contents)
        index == buildAsciiIndex(tree, <<>>, TRUE)
    IN  IF format = "md"
        THEN MdRepository \o Owner(repoDetails) \o <<Slash>>
                 \o RepoName(repoDetails) \o <<NewLine, NewLine>>
                 \o MdStructureOpen \o index \o MdStructureClose
                 \o MdFiles \o FormatEach(sortedFiles, 1, format)
        ELSE TxtRepository \o Owner(repoDetails) \o <<Slash>>
                 \o RepoName(repoDetails) \o <<NewLine>>
                 \o TxtStructure \o index \o <<NewLine, NewLine>>
                 \o FormatEach(sortedFiles, 1, format)

----------------------------------------------------------------------------
(* formatRepoOutput applied to a list of file contents.                    *)

\* longest list of contents handed to formatRepoOutput in SpecFormat
MaxContents == 3

Str_p_png ==
    <<"p", ".", "p", "n", "g">>

Str_b_q_png ==
    <<"b", "/", "q", ".", "p", "n", "g">>

ImagePng ==
    <<"i", "m", "a", "g", "e", "/", "p", "n", "g">>

DataUrlPng ==
    <<"d", "a", "t", "a", ":", "i", "m", "a", "g", "e", "/", "p", "n", "g",
      ";", "b", "a", "s", "e", "6", "4", ",", "A", "A", "=", "=">>

\* a FileContent; a dataUrl that is missing is the empty text
Content(path, url, type, text, dataUrl, mimeType) ==
    [path |-> path, url |-> url, type |-> type, text |-> text,
     dataUrl |-> dataUrl, mimeType |-> mimeType]

\* two text files, an image with its data URI and an image without one
ContentUniverse ==
    {Content(Str_d_a_ts, "u1", "text", <<"x">>, <<>>, <<>>),
     Content(Str_c, "u2", "text", <<"y">>, <<>>, <<>>),
     Content(Str_p_png, "u3", "image", <<>>, DataUrlPng, ImagePng),
     Content(Str_b_q_png, "u4", "image", <<>>, <<>>, ImagePng)}

ContentLists == UNION {[1..n -> ContentUniverse] : n \in 0..MaxContents}

\* the tree handed to formatRepoOutput in SpecFormat
FormatListing ==
    <<Item(Str_d_a_ts, "blob", "s1", "u1"), Item(Str_c, "blob", "s2", "u2"),
      Item(Str_p_png, "blob", "s3", "u3"),
      Item(Str_b_q_png, "blob", "s4", "u4")>>

InitFormat ==
    /\ treeData = buildTree(FormatListing)
    /\ items = FormatListing
    /\ selection = initialSelection(FormatListing)
    /\ isLoading = FALSE
    /\ error = Null
    /\ calls = <<>>
    /\ files = <<>>
    /\ sorted = <<>>
    /\ sortDone = FALSE
    /\ output = <<>>
    /\ fetchedContents \in ContentLists
    /\ isGenerating = FALSE
    /\ downloadFormat \in {"txt", "md"}
    /\ activeRepoDetails \in RepoUniverse
    /\ gen = IdleGen

FormatRepoOutput ==
    /\ output = <<>>
    /\ output' = formatRepoOutput(fetchedContents, treeData, downloadFormat,
                                  activeRepoDetails)
    /\ UNCHANGED <<treeData, selection, isLoading, error, items, calls,
                   fetchedContents, isGenerating, downloadFormat,
                   activeRepoDetails, gen, SortVars>>

NextFormat == FormatRepoOutput

SpecFormat == InitFormat /\ [][NextFormat]_vars

\* the lines of the output that open a record
IsTxtBanner(line) == StartsWith(line, TxtFile)
IsMdHeading(line) == StartsWith(line, MdFileHeading)

RecordLines ==
    IF downloadFormat = "md"
    THEN SelectSeq(Lines(output), IsMdHeading)
    ELSE SelectSeq(Lines(output), IsTxtBanner)

RecordPrefix == IF downloadFormat = "md" THEN MdFileHeading ELSE TxtFile

----------------------------------------------------------------------------
(* C13: in PLAIN and in MARKDOWN mode the output holds exactly one record  *)
(* per content item, a banner line FILE: <path> resp. a heading with the   *)
(* path, in the order given by sortTreeItems(contents); for every list of  *)
(* contents, images without a data URI included.                           *)
C13_OneRecordPerItem ==
    Len(output) > 0 =>
        LET expected == sortTreeItems(fetchedContents)
        IN  /\ Len(RecordLines) = Len(expected)
            /\ \A i \in 1..Len(RecordLines) :
                   StartsWith(RecordLines[i], RecordPrefix \o expected[i].path)


----------------------------------------------------------------------------
(* generateOutput and fetchFileContents.                                   *)

\* longest listing a fetch returns in SpecExport
MaxExportItems == 1

IMAGE_EXTENSIONS ==
    {<<"p", "n", "g">>, <<"j", "p", "g">>, <<"j", "p", "e", "g">>,
     <<"g", "i", "f">>, <<"w", "e", "b", "p">>, <<"i", "c", "o">>}

\* the text every fetched text file holds
FileText == <<"x">>

\* what reader.result is when the read ended: the data URI, or null
DataUrls == {DataUrlPng, <<>>}

RECURSIVE traverse(_, _)
RECURSIVE TraverseEach(_, _, _)

\* Object.values(node.children).forEach(traverse) from child i on
TraverseEach(children, i, sel) ==
    IF i > Len(children) THEN <<>>
    ELSE traverse(children[i], sel) \o TraverseEach(children, i + 1, sel)

\* traverse that takes every FILE node, selected or not
traverse_all(node, sel) ==
    (IF node.type = "blob"
     THEN <<[path |-> node.path, url |-> node.url]>>
     ELSE <<>>)
        \o TraverseEach(node.children, 1, sel)

\* traverse of generateOutput: the filesToFetch it pushes for node
traverse(node, sel) ==
    (IF node.type = "blob" /\ Truthy(sel, node.path)
     THEN <<[path |-> node.path, url |-> node.url]>>
     ELSE <<>>)
        \o TraverseEach(node.children, 1, sel)

\* the value fetchFileContents resolves with, reads[i] being the
\* reader.result of file i
fetchFileContents(list, reads) ==
    [i \in 1..Len(list) |->
        IF Extension(list[i].path) \in IMAGE_EXTENSIONS
        THEN Content(list[i].path, list[i].url, "image", <<>>, reads[i],
                     ImagePng)
        ELSE Content(list[i].path, list[i].url, "text", FileText, <<>>, <<>>)]

\* the outcomes of the reads of a list of files: text files are not read
Reads(list) ==
    {reads \in [1..Len(list) -> DataUrls] :
        \A i \in 1..Len(list) :
            Extension(list[i].path) \notin IMAGE_EXTENSIONS => reads[i] = <<>>}

\* generateOutput up to its await, or to its return when it has none; the
\* PACK BUNDLE button is disabled while isGenerating.  The values of the
\* render it was created in stay with the suspended call.
GenerateOutputStart ==
    /\ ~isGenerating
    /\ IF treeData = NullTree
       THEN UNCHANGED vars
       ELSE IF Len(traverse(treeData, selection)) = 0
       THEN /\ error' = "Please select at least one file."
            /\ UNCHANGED <<treeData, selection, isLoading, items, calls,
                           activeRepoDetails, ExportVars, SortVars>>
       ELSE /\ isGenerating' = TRUE
            /\ gen' = [pc |-> "awaiting",
                       filesToFetch |-> traverse(treeData, selection),
                       treeData |-> treeData,
                       downloadFormat |-> downloadFormat,
                       activeRepoDetails |-> activeRepoDetails]
            /\ UNCHANGED <<treeData, selection, isLoading, error, items,
                           calls, activeRepoDetails, output, fetchedContents,
                           downloadFormat, SortVars>>

\* generateOutput after fetchFileContents resolved, then finally
GenerateOutputResolve ==
    /\ gen.pc = "awaiting"
    /\ \E reads \in Reads(gen.filesToFetch) :
        LET contents == fetchFileContents(gen.filesToFetch, reads)
        IN  /\ fetchedContents' = contents
            /\ output' =
                   formatRepoOutput(contents, gen.treeData,
                                    IF gen.downloadFormat = "pdf" THEN "txt"
                                    ELSE gen.downloadFormat,
                                    gen.activeRepoDetails)
    /\ isGenerating' = FALSE
    /\ gen' = IdleGen
    /\ UNCHANGED <<treeData, selection, isLoading, error, items, calls,
                   activeRepoDetails, downloadFormat, SortVars>>

\* the rejection handled without the finally clause
GenerateOutputReject_noFinally ==
    /\ gen.pc = "awaiting"
    /\ error' = "Failed to fetch content"
    /\ gen' = IdleGen
    /\ UNCHANGED <<treeData, selection, isLoading, items, calls,
                   activeRepoDetails, output, fetchedContents, isGenerating,
                   downloadFormat, SortVars>>

\* generateOutput after fetchFileContents rejected: catch, then finally
GenerateOutputReject ==
    /\ gen.pc = "awaiting"
    /\ error' = "Failed to fetch content"
    /\ isGenerating' = FALSE
    /\ gen' = IdleGen
    /\ UNCHANGED <<treeData, selection, isLoading, items, calls,
                   activeRepoDetails, output, fetchedContents, downloadFormat,
                   SortVars>>

\* the format select, shown while a tree is loaded
SetDownloadFormat ==
    /\ treeData # NullTree
    /\ downloadFormat' \in {"txt", "md", "pdf"} \ {downloadFormat}
    /\ UNCHANGED <<treeData, selection, isLoading, error, items, calls,
                   activeRepoDetails, output, fetchedContents, isGenerating,
                   gen, SortVars>>

\* a text file selected by default and an image that is not
ExportUniverse ==
    {Item(Str_d_a_ts, "blob", "s1", "u1"),
     Item(Str_p_png, "blob", "s3", "u3")}

ExportLists == UNION {[1..n -> ExportUniverse] : n \in 0..MaxExportItems}

HandleFetchResolveExport == FetchResolve(ExportLists)

\* the row toggles of SpecExport, whose properties do not speak of calls
HandleToggleExport == RowToggle(FALSE)

NextExport ==
    \/ HandleFetchStart
    \/ HandleFetchInvalid
    \/ HandleFetchResolveExport
    \/ HandleFetchReject
    \/ HandleToggleExport
    \/ SetDownloadFormat
    \/ GenerateOutputStart
    \/ GenerateOutputResolve
    \/ GenerateOutputReject

SpecExport == Init /\ [][NextExport]_vars


\* no FILE node of the loaded tree is selected
NoFileSelected == \A f \in FilePaths(treeData) : ~Truthy(selection, f)

SelectError == "Please select at least one file."

----------------------------------------------------------------------------
(* C14: generateOutput invoked with a tree loaded and no FILE node         *)
(* selected only reports the error "Please select at least one file.": no  *)
(* fetch of file contents is started, and output, fetchedContents and the  *)
(* rest of the state keep their values.                                    *)
C14_EmptySelectionExport ==
    [][(GenerateOutputStart /\ Loaded /\ NoFileSelected) =>
           /\ error' = SelectError
           /\ gen' = IdleGen
           /\ isGenerating' = FALSE
           /\ output' = output
           /\ fetchedContents' = fetchedContents
           /\ UNCHANGED <<treeData, selection, isLoading, items,
                          downloadFormat, activeRepoDetails>>]_vars

\* C14 witness: an output was generated, its file was deselected, and the
\* next generateOutput reported the error and left the output in place
C14_Witness ==
    /\ Loaded
    /\ FilePaths(treeData) # {}
    /\ NoFileSelected
    /\ error = SelectError
    /\ Len(output) > 0
    /\ Len(fetchedContents) > 0
    /\ gen = IdleGen
    /\ ~isGenerating


----------------------------------------------------------------------------
(* C15: under every interleaving of handleFetch and generateOutput, a      *)
(* non-empty output or fetchedContents was produced from the tree and the  *)
(* repository details that are loaded now: a generateOutput started on an  *)
(* earlier tree does not write them after a later fetch cleared them.      *)
C15_ExportOfLoadedTree ==
    (Len(output) > 0 \/ Len(fetchedContents) > 0) =>
        /\ Loaded
        /\ \A i \in 1..Len(fetchedContents) :
               \E n \in Nodes(treeData) :
                   /\ n.type = "blob"
                   /\ n.path = fetchedContents[i].path
                   /\ n.url = fetchedContents[i].url
        /\ Len(output) > 0 =>
               \E format \in {"txt", "md"} :
                   output = formatRepoOutput(fetchedContents, treeData, format,
                                             activeRepoDetails)


----------------------------------------------------------------------------
(* The application when every awaited call ends: a suspended handleFetch   *)
(* and a suspended generateOutput are resumed, by a resolution or by a     *)
(* rejection.                                                              *)

FetchSettles == HandleFetchReject \/ HandleFetchResolveExport

ExportSettles == GenerateOutputReject \/ GenerateOutputResolve

SpecExportFair ==
    /\ Init
    /\ [][NextExport]_vars
    /\ WF_vars(FetchSettles)
    /\ WF_vars(ExportSettles)

----------------------------------------------------------------------------
(* C17: every handleFetch that set isLoading sets it back to false and     *)
(* every generateOutput that set isGenerating sets it back to false, when  *)
(* each awaited call resolves or rejects; isGenerating is set only by a    *)
(* generateOutput that was invoked with a tree loaded.                     *)
C17_BusyFlagsClear ==
    /\ isLoading ~> ~isLoading
    /\ isGenerating ~> ~isGenerating
    /\ [](isGenerating => (gen.pc = "awaiting" /\ gen.treeData # NullTree))
    /\ [][(GenerateOutputStart /\ ~Loaded) => ~isGenerating']_vars

\* C17 witness: a generateOutput whose fetch was rejected has cleared
\* isGenerating, after a handleFetch had cleared isLoading
C17_Witness ==
    /\ Loaded
    /\ ~isLoading
    /\ ~isGenerating
    /\ gen = IdleGen
    /\ error = "Failed to fetch content"

============================================================================
